---- MODULE Spec2Model ----
(***************************************************************************)
(* Model of the position reconstruction engine of deriverse_backend:       *)
(* SyncService.syncWallet (src/src/services/sync.service.ts) over an       *)
(* abstract store (the Position and Fill tables of the prisma migrations)  *)
(* and an upstream ledger read through BlockchainService.                  *)
(*                                                                         *)
(* Numbers.  Prices and sizes are integers; quotients the code computes in *)
(* floating point (averages, PnL, per-trade fee) are exact rationals       *)
(* [n, d].  Sizes are counted in units of 5e-7, so the closure threshold   *)
(* 1e-6 of the code is 2 units and a size of 1 unit is "dust".             *)
(* Timestamps are milliseconds, block times are seconds.                   *)
(***************************************************************************)
EXTENDS Integers, Sequences, FiniteSets, TLC

\* ------------------------------------------------------------------ bounds
MaxCalls == 3
MaxStoreFailures == 1
MaxFetchFailures == 1
MaxTicks == 3
MaxFills == 3

\* ------------------------------------------------------- program constants
Epsilon == 2
DayMs == 86400000
DefaultLimit == 100
RetryCount == 3
RetryDelay == 2000
CACHE_TTL_MS == 60000
maxAttempts == 3
SizeUnit == 2000000
ServerEpoch == 900000000

Procs == {1, 2}
Wallets == {"W1", "W2"}

\* --------------------------------------------------------------- rationals
Abs(x) == IF x < 0 THEN -x ELSE x

RECURSIVE GCD(_, _)
GCD(a, b) == IF b = 0 THEN a ELSE GCD(b, a % b)

R(n, d) ==
    LET g == GCD(Abs(n), Abs(d))
        s == IF d < 0 THEN -1 ELSE 1
    IN  IF n = 0 THEN [n |-> 0, d |-> 1]
        ELSE [n |-> s * (n \div g), d |-> s * (d \div g)]

Zero == [n |-> 0, d |-> 1]
Null == [n |-> 0, d |-> 0]
NullTime == -1
RInt(i) == [n |-> i, d |-> 1]
RAdd(x, y) == R(x.n * y.d + y.n * x.d, x.d * y.d)
RSub(x, y) == R(x.n * y.d - y.n * x.d, x.d * y.d)
RMul(x, y) == R(x.n * y.n, x.d * y.d)
RAbs(x) == [n |-> Abs(x.n), d |-> x.d]
RLess(x, y) == x.n * y.d < y.n * x.d

\* ---------------------------------------------------------- upstream ledger
\* The transactions the log source comes to serve, oldest first; at any time
\* it serves a prefix of them.  wallets is the set of addresses whose
\* signature list contains the transaction, funding the sum of its funding
\* events (in units of price * size).  A decoded message carries instrId,
\* marketId and orderId only when the log had them.
Chain == <<
    [signature |-> "s1", blockTime |-> 1000, err |-> FALSE, wallets |-> {"W1"},
     networkFee |-> 2, funding |-> 0,
     events |-> << [side |-> "BUY", price |-> 100, size |-> 4, instrId |-> 0, tag |-> 19] >>],
    [signature |-> "s2", blockTime |-> 2000, err |-> FALSE, wallets |-> {"W1", "W2"},
     networkFee |-> 2, funding |-> 6,
     events |-> << [side |-> "BUY", price |-> 110, size |-> 2, instrId |-> 0, tag |-> 19] >>],
    [signature |-> "s3", blockTime |-> 3000, err |-> FALSE, wallets |-> {"W1"},
     networkFee |-> 3, funding |-> 0,
     events |-> << [side |-> "SELL", price |-> 120, size |-> 6, instrId |-> 0, tag |-> 19],
                   [side |-> "BUY", price |-> 50, size |-> 1, tag |-> 19] >>],
    [signature |-> "s4", blockTime |-> 90000, err |-> FALSE, wallets |-> {"W1"},
     networkFee |-> 1, funding |-> 0,
     events |-> << [side |-> "BUY", price |-> 50, size |-> 1, tag |-> 19] >>],
    [signature |-> "s5", blockTime |-> 91000, err |-> FALSE, wallets |-> {"W1"},
     networkFee |-> 1, funding |-> 0,
     events |-> << [side |-> "BUY", price |-> 52, size |-> 1, tag |-> 19] >>]
>>

\* ------------------------------------------------------------ pure helpers
MARKET_MAP ==
    (0 :> "SOL-USDC") @@ (2 :> "LETTERA-USDC") @@ (4 :> "VELIT-USDC") @@
    (6 :> "SUN-USDC") @@ (8 :> "BRSH-USDC") @@ (10 :> "MSHK-USDC") @@
    (12 :> "SOL-USDC-V2") @@ (14 :> "trs-USDC") @@ (16 :> "sad-USDC") @@
    (18 :> "MDVD-USDC") @@ (20 :> "333-USDC") @@ (22 :> "BRSH-USDC-V2") @@
    (24 :> "1-USDC") @@ (26 :> "TST-USDC") @@ (28 :> "asd-USDC")

getMarketName(id) ==
    IF id \in DOMAIN MARKET_MAP THEN MARKET_MAP[id] ELSE "UNKNOWN-" \o ToString(id)

Reverse(s) == [i \in 1..Len(s) |-> s[Len(s) + 1 - i]]

Take(s, k) == IF Len(s) <= k THEN s ELSE SubSeq(s, 1, k)

RECURSIVE Concat(_)
Concat(ss) == IF ss = <<>> THEN <<>> ELSE Head(ss) \o Concat(Tail(ss))

\* msg.instrId ?? msg.marketId is not null
hasId(msg) == "instrId" \in DOMAIN msg \/ "marketId" \in DOMAIN msg

\* msg.instrId ?? msg.marketId
possibleId(msg) == IF "instrId" \in DOMAIN msg THEN msg.instrId ELSE msg.marketId

\* orderIdToInstrId: order id -> market id, from every message of the
\* transaction that has both; a later message replaces an earlier one
orderIdToInstrId(events) ==
    LET linked == {i \in 1..Len(events) :
                      "orderId" \in DOMAIN events[i] /\ hasId(events[i])}
        last(o) == CHOOSE i \in linked :
                      /\ events[i].orderId = o
                      /\ \A j \in linked : events[j].orderId = o => j <= i
    IN  [o \in {events[i].orderId : i \in linked} |-> possibleId(events[last(o)])]

\* the price ranges that stand in for a market id (prices are whole numbers
\* here, so 0.8..1.2 is the price 1)
priceHeuristic(rawPrice) ==
    IF rawPrice >= 10000 THEN 2
    ELSE IF rawPrice >= 3000 /\ rawPrice <= 4000 THEN 6
    ELSE IF rawPrice >= 900 /\ rawPrice <= 1100 THEN 14
    ELSE IF rawPrice >= 70 /\ rawPrice <= 150 THEN 0
    ELSE IF rawPrice = 1 THEN 4
    ELSE -1

\* (variant: a price inside a range decides before any id is looked at)
resolveInstrId_PriceFirst(events, e) ==
    LET map == orderIdToInstrId(events)
        found == IF hasId(e) THEN possibleId(e)
                 ELSE IF "orderId" \in DOMAIN e /\ e.orderId \in DOMAIN map
                 THEN map[e.orderId]
                 ELSE -1
    IN  IF priceHeuristic(e.price) # -1 THEN priceHeuristic(e.price) ELSE found

\* e.instrId ?? e.marketId ?? orderIdToInstrId.get(e.orderId) ?? -1, and the
\* price ranges when that is -1
resolveInstrId(events, e) ==
    LET map == orderIdToInstrId(events)
        found == IF hasId(e) THEN possibleId(e)
                 ELSE IF "orderId" \in DOMAIN e /\ e.orderId \in DOMAIN map
                 THEN map[e.orderId]
                 ELSE -1
    IN  IF found = -1 THEN priceHeuristic(e.price) ELSE found

\* e.tag === 11 || e.tag === 19 || (e.price !== undefined && (e.qty || e.perps))
isFill(e) ==
    \/ e.tag = 11
    \/ e.tag = 19
    \/ ("price" \in DOMAIN e /\ "size" \in DOMAIN e /\ e.size # 0)

\* mapEventsToTrades: one TradeEvent per fill event of the transaction, all
\* carrying the transaction's signature and block time; the transaction fee
\* is split evenly over them.
mapEventsToTrades(tx) ==
    LET tradeEvents == SelectSeq(tx.events, isFill)
        k == Len(tradeEvents)
        feePerTrade == IF k > 0 THEN R(tx.networkFee, k) ELSE Zero
    IN  [i \in 1..k |->
            LET instrId == resolveInstrId(tx.events, tradeEvents[i])
            IN  [signature |-> tx.signature,
                 side      |-> tradeEvents[i].side,
                 price     |-> tradeEvents[i].price,
                 size      |-> tradeEvents[i].size,
                 marketId  |-> instrId,
                 symbol    |-> getMarketName(instrId),
                 timestamp |-> tx.blockTime * 1000,
                 fee       |-> feePerTrade,
                 tradeType |-> IF tradeEvents[i].tag = 19 THEN "PERP" ELSE "SPOT",
                 fundingValue |-> tx.funding]]

\* getSignaturesForAddress: the wallet's transactions, newest first, at most
\* limit of them.
getSignaturesForAddress(ledger, w, limit) ==
    Take(Reverse(SelectSeq(ledger, LAMBDA tx : w \in tx.wallets)), limit)

\* The signatures fetchDecodedTrades goes on to download: no error, and a
\* block time strictly after the watermark when there is one.
validSigs(ledger, w, limit, since) ==
    SelectSeq(getSignaturesForAddress(ledger, w, limit),
              LAMBDA tx : /\ ~tx.err
                          /\ (since = NullTime \/ tx.blockTime * 1000 > since))

\* fetchDecodedTrades, given the set of signatures whose download failed.
fetchDecodedTrades(ledger, w, limit, since, failed) ==
    LET sigs == validSigs(ledger, w, limit, since)
    IN  Concat([i \in 1..Len(sigs) |->
                  IF sigs[i].signature \in failed THEN <<>>
                  ELSE mapEventsToTrades(sigs[i])])

marketKeyOf(trade) ==
    IF trade.marketId # -1 THEN ToString(trade.marketId) ELSE trade.symbol

\* (variant: no side in the key)
groupKey_NoSide(trade) ==
    <<marketKeyOf(trade), "", trade.timestamp \div DayMs>>

\* (variant: no day bucket in the key)
groupKey_NoBucket(trade) ==
    <<marketKeyOf(trade), trade.side, 0>>

groupKey(trade) ==
    <<marketKeyOf(trade), trade.side, trade.timestamp \div DayMs>>

RECURSIVE groupInto(_, _)
groupInto(groups, trades) ==
    IF trades = <<>> THEN groups
    ELSE LET t == Head(trades)
             k == groupKey(t)
             hit == {i \in 1..Len(groups) : groups[i].key = k}
         IN  IF hit = {}
             THEN groupInto(Append(groups,
                      [key |-> k, marketId |-> t.marketId, side |-> t.side,
                       trades |-> <<t>>]), Tail(trades))
             ELSE LET i == CHOOSE j \in hit : TRUE
                  IN  groupInto([groups EXCEPT ![i].trades = Append(@, t)],
                                Tail(trades))

groupTradesByPosition(trades) == groupInto(<<>>, trades)

dbPositionId(group, w) == <<group.key[1], group.key[2], group.key[3], w>>

RECURSIVE MinTimestamp(_)
MinTimestamp(trades) ==
    IF Len(trades) = 1 THEN trades[1].timestamp
    ELSE LET m == MinTimestamp(Tail(trades))
         IN  IF trades[1].timestamp < m THEN trades[1].timestamp ELSE m


\* ------------------------------------------------------------------- store
\* Fill rows of one position, oldest first (findMany orderBy timestamp asc).
RECURSIVE SortByTimestamp(_)
SortByTimestamp(rows) ==
    IF rows = <<>> THEN <<>>
    ELSE LET m == CHOOSE i \in 1..Len(rows) :
                    \A j \in 1..Len(rows) :
                        \/ rows[i].timestamp < rows[j].timestamp
                        \/ (rows[i].timestamp = rows[j].timestamp /\ i <= j)
             rest == [k \in 1..(Len(rows) - 1) |->
                        IF k < m THEN rows[k] ELSE rows[k + 1]]
         IN  <<rows[m]>> \o SortByTimestamp(rest)

\* (variant: only the newest row is read)
findManyFills_NewestOnly(F, posId) ==
    LET rows == SortByTimestamp(SelectSeq(F, LAMBDA f : f.positionId = posId))
    IN  IF rows = <<>> THEN <<>> ELSE <<rows[Len(rows)]>>

findManyFills(F, posId) ==
    SortByTimestamp(SelectSeq(F, LAMBDA f : f.positionId = posId))

\* findFirst({position: {walletAddress}}, orderBy timestamp desc).timestamp,
\* or no watermark when the wallet has no fill.
syncAnchor(P, F, w) ==
    LET mine == SelectSeq(F, LAMBDA f : P[f.positionId].walletAddress = w)
        sorted == SortByTimestamp(mine)
    IN  IF mine = <<>> THEN NullTime ELSE sorted[Len(sorted)].timestamp

\* position.upsert with update: {} : create the row when the id is new,
\* leave an existing row as it is.
positionCreate(group, w, now) ==
    [walletAddress |-> w,
     market        |-> getMarketName(group.marketId),
     side          |-> IF group.side = "BUY" THEN "LONG" ELSE "SHORT",
     status        |-> "OPEN",
     totalSize     |-> 0,
     avgEntryPrice |-> Zero,
     avgExitPrice  |-> Null,
     totalFees     |-> Zero,
     realizedPnl   |-> Null,
     createdAt     |-> MinTimestamp(group.trades),
     updatedAt     |-> now,
     closedAt      |-> NullTime,
     lastNudge     |-> ""]

\* (variant: the new row replaces the table)
positionUpsert_Replace(P, id, row) ==
    IF id \in DOMAIN P THEN P ELSE (id :> row)

positionUpsert(P, id, row) ==
    IF id \in DOMAIN P THEN P ELSE (id :> row) @@ P

\* (trade as any).funding || 0, (trade as any).socLoss || 0: a field the
\* trade does not have reads as undefined
tradeMeta(trade, field) ==
    IF field \in DOMAIN trade THEN trade[field] ELSE 0

fillCreate(trade, group, posId) ==
    [signature  |-> trade.signature,
     positionId |-> posId,
     price      |-> trade.price,
     size       |-> trade.size,
     fee        |-> trade.fee,
     timestamp  |-> trade.timestamp,
     isEntry    |-> \/ (group.side = "SELL" /\ trade.side = "SELL")
                    \/ (group.side = "BUY" /\ trade.side = "BUY"),
     tradeType  |-> trade.tradeType,
     funding    |-> tradeMeta(trade, "funding"),
     socLoss    |-> tradeMeta(trade, "socLoss")]

\* (variant: a plain create instead of the upsert)
fillUpsert_CreateOnly(F, trade, group, posId) ==
    Append(F, fillCreate(trade, group, posId))

\* (variant: an existing row is rewritten from the trade)
fillUpsert_Overwrite(F, trade, group, posId) ==
    IF \E i \in 1..Len(F) : F[i].signature = trade.signature
    THEN [i \in 1..Len(F) |->
            IF F[i].signature = trade.signature
            THEN fillCreate(trade, group, posId) ELSE F[i]]
    ELSE Append(F, fillCreate(trade, group, posId))

\* fill.upsert keyed by signature: an existing row only gets the fee, a new
\* signature gets a new row.
fillUpsert(F, trade, group, posId) ==
    IF \E i \in 1..Len(F) : F[i].signature = trade.signature
    THEN [i \in 1..Len(F) |->
            IF F[i].signature = trade.signature
            THEN [F[i] EXCEPT !.fee = trade.fee] ELSE F[i]]
    ELSE Append(F, fillCreate(trade, group, posId))

\* ------------------------------------------------------------- aggregation
RECURSIVE SumFees(_)
SumFees(rows) ==
    IF rows = <<>> THEN Zero ELSE RAdd(Head(rows).fee, SumFees(Tail(rows)))

RECURSIVE SumOf(_, _, _)
\* sum over the rows with isEntry = entry of size (byValue FALSE) or of
\* price * size (byValue TRUE)
SumOf(rows, entry, byValue) ==
    IF rows = <<>> THEN 0
    ELSE (IF Head(rows).isEntry = entry
          THEN (IF byValue THEN Head(rows).price * Head(rows).size
                ELSE Head(rows).size)
          ELSE 0) + SumOf(Tail(rows), entry, byValue)

RECURSIVE SumMeta(_, _)
SumMeta(rows, field) ==
    IF rows = <<>> THEN 0
    ELSE (IF field = "funding" THEN Head(rows).funding ELSE Head(rows).socLoss)
         + SumMeta(Tail(rows), field)

\* (variant: closed only at exactly zero)
isClosedAt_ExactZero(netSize) == netSize = 0

\* const isClosed = Math.abs(netSize) < 1e-6
isClosedAt(netSize) == Abs(netSize) < Epsilon

\* (variant: truncating division)
avgEntryOf_Truncated(entryValue, entrySize) ==
    IF entrySize > 0 THEN RInt(entryValue \div entrySize) ELSE Zero

\* const avgEntryPrice = entrySize > 0 ? entryValue / entrySize : 0
avgEntryOf(entryValue, entrySize) ==
    IF entrySize > 0 THEN R(entryValue, entrySize) ELSE Zero

\* (variant: the residual is written as it is)
totalSizeOf_KeepDust(isClosed, netSize) == Abs(netSize)

\* totalSize: isClosed ? 0 : Math.abs(netSize)
totalSizeOf(isClosed, netSize) == IF isClosed THEN 0 ELSE Abs(netSize)

\* STEP 3 of syncWallet: the derived fields from the fill rows read.
aggregate(allFills, side, now) ==
    LET entrySize  == SumOf(allFills, TRUE, FALSE)
        entryValue == SumOf(allFills, TRUE, TRUE)
        exitSize   == SumOf(allFills, FALSE, FALSE)
        exitValue  == SumOf(allFills, FALSE, TRUE)
        netSize    == entrySize - exitSize
        totalFunding == SumMeta(allFills, "funding")
        totalSocLoss == SumMeta(allFills, "socLoss")
        isClosed   == isClosedAt(netSize)
        avgEntryPrice == avgEntryOf(entryValue, entrySize)
        avgExitPrice  == IF exitSize > 0 THEN R(exitValue, exitSize) ELSE Null
        pnlMultiplier == IF side = "BUY" THEN 1 ELSE -1
        pricePnl == IF exitSize > 0
                    THEN RMul(RMul(RSub(R(exitValue, exitSize), avgEntryPrice),
                                   RInt(exitSize)), RInt(pnlMultiplier))
                    ELSE Zero
    IN  [isClosed      |-> isClosed,
         totalSize     |-> totalSizeOf(isClosed, netSize),
         avgEntryPrice |-> avgEntryPrice,
         avgExitPrice  |-> avgExitPrice,
         totalFees     |-> SumFees(allFills),
         realizedPnl   |-> RSub(RAdd(pricePnl, RInt(totalFunding)),
                                RInt(totalSocLoss)),
         lastFillTimestamp |-> IF allFills = <<>> THEN now
                               ELSE allFills[Len(allFills)].timestamp]

\* (variant: the status is only ever written as CLOSED)
positionUpdate_KeepStatus(P, id, agg) ==
    [P EXCEPT ![id] =
        IF agg.isClosed
        THEN [@ EXCEPT !.totalSize = agg.totalSize,
                       !.avgEntryPrice = agg.avgEntryPrice,
                       !.totalFees = agg.totalFees,
                       !.realizedPnl = agg.realizedPnl,
                       !.updatedAt = agg.lastFillTimestamp,
                       !.status = "CLOSED",
                       !.closedAt = agg.lastFillTimestamp,
                       !.avgExitPrice = agg.avgExitPrice]
        ELSE [@ EXCEPT !.totalSize = agg.totalSize,
                       !.avgEntryPrice = agg.avgEntryPrice,
                       !.totalFees = agg.totalFees,
                       !.realizedPnl = agg.realizedPnl,
                       !.updatedAt = agg.lastFillTimestamp]]

\* The final position.update of a pass.
positionUpdate(P, id, agg) ==
    [P EXCEPT ![id] =
        IF agg.isClosed
        THEN [@ EXCEPT !.totalSize = agg.totalSize,
                       !.avgEntryPrice = agg.avgEntryPrice,
                       !.totalFees = agg.totalFees,
                       !.realizedPnl = agg.realizedPnl,
                       !.updatedAt = agg.lastFillTimestamp,
                       !.status = "CLOSED",
                       !.closedAt = agg.lastFillTimestamp,
                       !.avgExitPrice = agg.avgExitPrice]
        ELSE [@ EXCEPT !.totalSize = agg.totalSize,
                       !.avgEntryPrice = agg.avgEntryPrice,
                       !.totalFees = agg.totalFees,
                       !.realizedPnl = agg.realizedPnl,
                       !.updatedAt = agg.lastFillTimestamp,
                       !.status = "OPEN"]]


\* ------------------------------------------------- a whole call, unbroken
\* syncWallet run from the store (P, F) to its return with no failure and
\* nothing else running: the store it leaves.
RECURSIVE upsertFills(_, _, _, _)
upsertFills(F, trades, group, posId) ==
    IF trades = <<>> THEN F
    ELSE upsertFills(fillUpsert(F, Head(trades), group, posId), Tail(trades),
                     group, posId)

syncGroup(store, group, w, now) ==
    LET id == dbPositionId(group, w)
        P1 == positionUpsert(store.P, id, positionCreate(group, w, now))
        F1 == upsertFills(store.F, group.trades, group, id)
        agg == aggregate(findManyFills(F1, id), group.side, now)
    IN  [P |-> positionUpdate(P1, id, agg), F |-> F1]

RECURSIVE syncGroups(_, _, _, _)
syncGroups(store, groups, w, now) ==
    IF groups = <<>> THEN store
    ELSE syncGroups(syncGroup(store, Head(groups), w, now), Tail(groups), w, now)

syncWalletWhole(P, F, ledger, w, now) ==
    LET trades == fetchDecodedTrades(ledger, w, DefaultLimit,
                                     syncAnchor(P, F, w), {})
    IN  syncGroups([P |-> P, F |-> F], groupTradesByPosition(trades), w, now)

\* ------------------------------------------------------------------- state
VARIABLES
    published,      \* number of transactions of Chain the log source serves
    positions,      \* Position table: id -> row
    fills,          \* Fill table: rows in insertion order
    call,           \* per request slot: the syncWallet call in progress
    calls,          \* number of syncWallet calls begun
    storeFailures,  \* store operations that have thrown
    fetchFailures,  \* transaction downloads that have failed for good
    journalCalls,   \* id -> number of journalService.analyzeAndJournal(id) calls
    closures,       \* id -> number of changes of the stored status OPEN -> CLOSED
    hist,           \* one record per finished call, in order of finishing
    priceCache,     \* PnlService.priceCache: NoCache or [timestamp, prices]
    clock,          \* Date.now() as PnlService sees it, ms
    perf            \* the last getWalletPerformance call and what it returned

vars == <<published, positions, fills, call, calls, storeFailures, fetchFailures,
          journalCalls, closures, hist, priceCache, clock, perf>>

pnlVars == <<priceCache, clock, perf>>

NoCache == [timestamp |-> NullTime, prices |-> <<>>]
NoPerf == [wallet |-> "", source |-> "", cacheBefore |-> NoCache,
           P |-> <<>>, entries |-> <<>>]

Ledger == SubSeq(Chain, 1, published)

Idle == [pc |-> "idle", wallet |-> "", upstream |-> 0, groups |-> <<>>, gi |-> 0, ti |-> 0,
         wasClosed |-> FALSE, allFills |-> <<>>, fillsProcessed |-> 0,
         trades |-> <<>>, failed |-> {}, now |-> 0,
         startP |-> <<>>, startF |-> <<>>,
         since |-> NullTime, sigs |-> <<>>, si |-> 0,
         retries |-> 0, delay |-> 0, waits |-> <<>>,
         sigsFaulty |-> FALSE, faulty |-> {}, gaveUp |-> {}, rejections |-> 0]

Init ==
    /\ published = 0
    /\ positions = <<>>
    /\ fills = <<>>
    /\ call = [p \in Procs |-> Idle]
    /\ calls = 0
    /\ storeFailures = 0
    /\ fetchFailures = 0
    /\ journalCalls = <<>>
    /\ closures = <<>>
    /\ hist = <<>>
    /\ priceCache = NoCache
    /\ clock = 0
    /\ perf = NoPerf

Count(f, id) == IF id \in DOMAIN f THEN f[id] ELSE 0
Bump(f, id) == (id :> Count(f, id) + 1) @@ f

Finished(c, outcome, P, F) ==
    [wallet |-> c.wallet, outcome |-> outcome, upstream |-> c.upstream,
     positionsUpdated |-> IF outcome = "returned" THEN Len(c.groups) ELSE 0,
     fillsProcessed |-> IF outcome = "returned" THEN c.fillsProcessed ELSE 0,
     trades |-> c.trades, failed |-> c.failed, now |-> c.now,
     sigs |-> c.sigs, gaveUp |-> c.gaveUp, rejections |-> c.rejections,
     touched |-> {dbPositionId(c.groups[i], c.wallet) : i \in 1..Len(c.groups)},
     startP |-> c.startP, startF |-> c.startF, endP |-> P, endF |-> F]

\* syncWallet up to the first store write: read the watermark, download and
\* decode (failed = the signatures whose download was given up), group.
\* An empty batch returns at once.
Begin(p, w, failed) ==
    /\ call[p].pc = "idle"
    /\ \A q \in Procs : q < p => call[q].pc # "idle"
    /\ LET since == syncAnchor(positions, fills, w)
           sigs  == validSigs(Ledger, w, DefaultLimit, since)
           trades == fetchDecodedTrades(Ledger, w, DefaultLimit, since, failed)
           c == [Idle EXCEPT !.wallet = w, !.upstream = published,
                             !.trades = trades, !.failed = failed,
                             !.since = since, !.sigs = sigs,
                             !.groups = groupTradesByPosition(trades),
                             !.now = ServerEpoch + calls + 1,
                             !.startP = positions, !.startF = fills]
       IN  /\ failed \subseteq {sigs[i].signature : i \in 1..Len(sigs)}
           /\ Cardinality(failed) <= MaxFetchFailures - fetchFailures
           /\ fetchFailures' = fetchFailures + Cardinality(failed)
           /\ IF trades = <<>>
              THEN /\ call' = call
                   /\ hist' = Append(hist, Finished(c, "returned", positions, fills))
              ELSE /\ call' = [call EXCEPT ![p] = [c EXCEPT !.pc = "upsertPos", !.gi = 1]]
                   /\ hist' = hist
    /\ calls' = calls + 1
    /\ UNCHANGED pnlVars
    /\ UNCHANGED <<published, positions, fills, storeFailures, journalCalls,
                   closures>>

\* STEP 1: ensure the parent row exists; remember whether it was CLOSED.
PositionUpsert(p) ==
    LET c == call[p]
        g == c.groups[c.gi]
        id == dbPositionId(g, c.wallet)
        P2 == positionUpsert(positions, id, positionCreate(g, c.wallet, c.now))
    IN  /\ c.pc = "upsertPos"
        /\ positions' = P2
        /\ call' = [call EXCEPT ![p].wasClosed = (P2[id].status = "CLOSED"),
                                ![p].ti = 1,
                                ![p].pc = "upsertFill"]
        /\ UNCHANGED pnlVars
        /\ UNCHANGED <<published, fills, calls, storeFailures, fetchFailures,
                       journalCalls, closures, hist>>

\* STEP 2: upsert the next trade of the group.
FillUpsert(p) ==
    LET c == call[p]
        g == c.groups[c.gi]
        id == dbPositionId(g, c.wallet)
    IN  /\ c.pc = "upsertFill"
        /\ fills' = fillUpsert(fills, g.trades[c.ti], g, id)
        /\ call' = [call EXCEPT ![p].fillsProcessed = @ + 1,
                                ![p].ti = @ + 1,
                                ![p].pc = IF c.ti = Len(g.trades) THEN "findMany"
                                          ELSE "upsertFill"]
        /\ UNCHANGED pnlVars
        /\ UNCHANGED <<published, positions, calls, storeFailures, fetchFailures,
                       journalCalls, closures, hist>>

\* STEP 3, read: all fill rows of the position.
FindMany(p) ==
    LET c == call[p]
        id == dbPositionId(c.groups[c.gi], c.wallet)
    IN  /\ c.pc = "findMany"
        /\ call' = [call EXCEPT ![p].allFills = findManyFills(fills, id),
                                ![p].pc = "update"]
        /\ UNCHANGED pnlVars
        /\ UNCHANGED <<published, positions, fills, calls, storeFailures,
                       fetchFailures, journalCalls, closures, hist>>

\* (variant: the earlier status is not looked at)
trigger_IgnoresWasClosed(isClosed, wasClosed) == isClosed

\* Auto-Coach trigger: if (isClosed && !wasClosed)
trigger(isClosed, wasClosed) == isClosed /\ ~wasClosed

\* (variant: the notification is awaited inside the try block)
notifyPropagates_Awaited(rejected) == rejected

\* journalService.analyzeAndJournal(id).catch(err => console.error(...)):
\* the promise is not awaited and its rejection is caught and logged.
notifyPropagates(rejected) == FALSE

\* STEP 3, write: the final update of the position, the Auto-Coach trigger
\* (rejected: analyzeAndJournal fails), then on to the next group or the
\* return of the summary.
PositionUpdate(p, rejected) ==
    LET c == call[p]
        g == c.groups[c.gi]
        id == dbPositionId(g, c.wallet)
        agg == aggregate(c.allFills, g.side, c.now)
        P2 == positionUpdate(positions, id, agg)
        last == c.gi = Len(c.groups)
        fired == trigger(agg.isClosed, c.wasClosed)
        c2 == [c EXCEPT !.rejections = IF rejected THEN @ + 1 ELSE @]
    IN  /\ c.pc = "update"
        /\ rejected => fired
        /\ positions' = P2
        /\ closures' = IF positions[id].status = "OPEN" /\ P2[id].status = "CLOSED"
                       THEN Bump(closures, id) ELSE closures
        /\ journalCalls' = IF fired THEN Bump(journalCalls, id) ELSE journalCalls
        /\ IF notifyPropagates(rejected)
           THEN /\ call' = [call EXCEPT ![p] = Idle]
                /\ hist' = Append(hist, Finished(c2, "raisedNotify", P2, fills))
           ELSE IF last
           THEN /\ call' = [call EXCEPT ![p] = Idle]
                /\ hist' = Append(hist, Finished(c2, "returned", P2, fills))
           ELSE /\ call' = [call EXCEPT ![p] = [c2 EXCEPT !.gi = @ + 1,
                                                         !.pc = "upsertPos",
                                                         !.allFills = <<>>]]
                /\ hist' = hist
        /\ UNCHANGED pnlVars
        /\ UNCHANGED <<published, fills, calls, storeFailures, fetchFailures>>

\* A store operation throws: the call is abandoned where it stands and the
\* error goes to the caller.
StoreFail(p) ==
    /\ call[p].pc \in {"upsertPos", "upsertFill", "findMany", "update"}
    /\ storeFailures < MaxStoreFailures
    /\ storeFailures' = storeFailures + 1
    /\ call' = [call EXCEPT ![p] = Idle]
    /\ hist' = Append(hist, Finished(call[p], "raised", positions, fills))
    /\ UNCHANGED pnlVars
    /\ UNCHANGED <<published, positions, fills, calls, fetchFailures,
                   journalCalls, closures>>

\* The chain confirms its next transaction.
Publish ==
    /\ published < Len(Chain)
    /\ published' = published + 1
    /\ UNCHANGED pnlVars
    /\ UNCHANGED <<positions, fills, call, calls, storeFailures, fetchFailures,
                   journalCalls, closures, hist>>

NoneRunning == \A q \in Procs : call[q].pc = "idle"

FailedChoices == {{}} \cup {{Chain[i].signature} : i \in 1..Len(Chain)}

Step(p) ==
    \/ PositionUpsert(p)
    \/ FillUpsert(p)
    \/ FindMany(p)
    \/ PositionUpdate(p, FALSE)
    \/ StoreFail(p)

\* Calls one after the other.
BeginAlone(p, w, failed) ==
    /\ NoneRunning
    /\ calls < MaxCalls
    /\ Begin(p, w, failed)

\* The ledger is only read when a call begins, so it is enough to let it
\* grow while a call can still begin.
PublishBetween == NoneRunning /\ calls < MaxCalls /\ Publish

Next ==
    \/ PublishBetween
    \/ \E p \in Procs :
        \/ \E w \in Wallets, failed \in FailedChoices : BeginAlone(p, w, failed)
        \/ Step(p)

Spec == Init /\ [][Next]_vars

\* Two requests whose calls may overlap: one call per request slot.
BeginAny(p, w, failed) ==
    /\ calls < Cardinality(Procs)
    /\ Begin(p, w, failed)

PublishBefore == calls < Cardinality(Procs) /\ Publish

NextConc ==
    \/ PublishBefore
    \/ \E p \in Procs :
        \/ \E w \in Wallets, failed \in FailedChoices : BeginAny(p, w, failed)
        \/ Step(p)

SpecConc == Init /\ [][NextConc]_vars


\* ----------------------------------------------- the call in full detail
\* syncWallet with fetchDecodedTrades taken apart into its external calls:
\* every attempt of withRetry is a step.  sigsFaulty says the signature list
\* cannot be had during this call, faulty is the set of transactions whose
\* download or decoding fails during this call; an attempt on anything else
\* succeeds, possibly after rate-limit answers.

\* if (retries > 0 && isRateLimit)
shouldRetry(retries, isRateLimit) == retries > 0 /\ isRateLimit

\* (variant: the failure of one signature ends the loop)
skipSignature_AbortBatch(sigs, si) == Len(sigs) + 1

\* (variant: the signature is taken up again)
skipSignature_Again(sigs, si) == si

\* catch (err) { console.error(...) } inside the for loop: on to the next
\* signature
skipSignature(sigs, si) == si + 1

\* what one attempt can answer
Outcomes(isFaulty, retries) ==
    IF isFaulty THEN {"429", "error"}
    ELSE {"ok"} \cup (IF retries > 0 THEN {"429"} ELSE {})

freshRetry(c) == [c EXCEPT !.retries = RetryCount, !.delay = RetryDelay,
                           !.waits = <<>>]

\* await this.wait(delay); return this.withRetry(fn, retries - 1, delay * 2)
waitAndRetry(c) == [c EXCEPT !.waits = Append(@, c.delay),
                             !.retries = @ - 1, !.delay = @ * 2]

\* the call is made, the watermark is read; the signature list comes next
Request(p, w, sigsFaulty) ==
    /\ call[p].pc = "idle"
    /\ \A q \in Procs : q < p => call[q].pc # "idle"
    /\ NoneRunning
    /\ calls < Cardinality(Procs)
    /\ sigsFaulty => fetchFailures < MaxFetchFailures
    /\ fetchFailures' = fetchFailures + (IF sigsFaulty THEN 1 ELSE 0)
    /\ call' = [call EXCEPT ![p] =
                  freshRetry([Idle EXCEPT !.pc = "sigs", !.wallet = w,
                                          !.since = syncAnchor(positions, fills, w),
                                          !.now = ServerEpoch + calls + 1,
                                          !.sigsFaulty = sigsFaulty,
                                          !.startP = positions,
                                          !.startF = fills])]
    /\ calls' = calls + 1
    /\ UNCHANGED pnlVars
    /\ UNCHANGED <<published, positions, fills, storeFailures, journalCalls,
                   closures, hist>>

\* one attempt of getSignaturesForAddress under withRetry; when it is given
\* up the error leaves fetchDecodedTrades and syncWallet rethrows it
SigsAttempt(p, outcome, faulty) ==
    LET c == call[p]
        sigs == validSigs(Ledger, c.wallet, DefaultLimit, c.since)
    IN  /\ c.pc = "sigs"
        /\ outcome \in Outcomes(c.sigsFaulty, c.retries)
        /\ IF outcome = "ok"
           THEN /\ faulty \subseteq {sigs[i].signature : i \in 1..Len(sigs)}
                /\ Cardinality(faulty) <= MaxFetchFailures - fetchFailures
                /\ fetchFailures' = fetchFailures + Cardinality(faulty)
                /\ call' = [call EXCEPT ![p] =
                              freshRetry([c EXCEPT !.pc = "tx", !.sigs = sigs,
                                                   !.si = 1, !.faulty = faulty,
                                                   !.upstream = published])]
                /\ hist' = hist
           ELSE /\ faulty = {}
                /\ fetchFailures' = fetchFailures
                /\ IF shouldRetry(c.retries, outcome = "429")
                   THEN /\ call' = [call EXCEPT ![p] = waitAndRetry(c)]
                        /\ hist' = hist
                   ELSE /\ call' = [call EXCEPT ![p] = Idle]
                        /\ hist' = Append(hist, Finished(c, "raisedFetch",
                                                         positions, fills))
        /\ UNCHANGED pnlVars
        /\ UNCHANGED <<published, positions, fills, calls, storeFailures,
                       journalCalls, closures>>

\* one attempt of getTransaction under withRetry for the signature at hand;
\* on success its events are decoded and mapped, when it is given up the
\* per-signature catch logs the error
TxAttempt(p, outcome) ==
    LET c == call[p]
        tx == c.sigs[c.si]
    IN  /\ c.pc = "tx"
        /\ c.si <= Len(c.sigs)
        /\ outcome \in Outcomes(tx.signature \in c.faulty, c.retries)
        /\ call' = [call EXCEPT ![p] =
              IF outcome = "ok"
              THEN freshRetry([c EXCEPT !.trades = @ \o mapEventsToTrades(tx),
                                        !.si = @ + 1])
              ELSE IF shouldRetry(c.retries, outcome = "429")
              THEN waitAndRetry(c)
              ELSE freshRetry([c EXCEPT
                      !.failed = @ \cup {tx.signature},
                      !.gaveUp = @ \cup {[signature |-> tx.signature,
                                          waits |-> c.waits]},
                      !.si = skipSignature(c.sigs, c.si)])]
        /\ UNCHANGED pnlVars
        /\ UNCHANGED <<published, positions, fills, calls, storeFailures,
                       fetchFailures, journalCalls, closures, hist>>

\* fetchDecodedTrades has returned: an empty batch ends the call, anything
\* else is grouped
Group(p) ==
    LET c == call[p]
    IN  /\ c.pc = "tx"
        /\ c.si > Len(c.sigs)
        /\ IF c.trades = <<>>
           THEN /\ call' = [call EXCEPT ![p] = Idle]
                /\ hist' = Append(hist, Finished(c, "returned", positions, fills))
           ELSE /\ call' = [call EXCEPT ![p].pc = "upsertPos", ![p].gi = 1,
                                        ![p].groups = groupTradesByPosition(c.trades)]
                /\ hist' = hist
        /\ UNCHANGED pnlVars
        /\ UNCHANGED <<published, positions, fills, calls, storeFailures,
                       fetchFailures, journalCalls, closures>>

FetchStep(p) ==
    \/ \E outcome \in {"ok", "429", "error"}, faulty \in FailedChoices :
          SigsAttempt(p, outcome, faulty)
    \/ \E outcome \in {"ok", "429", "error"} : TxAttempt(p, outcome)
    \/ Group(p)

StoreStep(p) ==
    \/ PositionUpsert(p)
    \/ FillUpsert(p)
    \/ FindMany(p)
    \/ \E rejected \in BOOLEAN : PositionUpdate(p, rejected)
    \/ StoreFail(p)

PublishIdle == NoneRunning /\ calls < Cardinality(Procs) /\ Publish

NextFetch ==
    \/ PublishIdle
    \/ \E p \in Procs :
        \/ \E w \in Wallets, sigsFaulty \in BOOLEAN : Request(p, w, sigsFaulty)
        \/ FetchStep(p)
        \/ StoreStep(p)

SpecFetch == Init /\ [][NextFetch]_vars

\* One call, from any length of the ledger, that keeps taking steps: every
\* await of it settles.
RequestFirst(p, w, sigsFaulty) == calls = 0 /\ Request(p, w, sigsFaulty)

PublishFirst == calls = 0 /\ Publish

NextLive ==
    \/ PublishFirst
    \/ \E p \in Procs :
        \/ \E w \in Wallets, sigsFaulty \in BOOLEAN : RequestFirst(p, w, sigsFaulty)
        \/ FetchStep(p)
        \/ StoreStep(p)

SpecFetchLive ==
    /\ Init /\ [][NextLive]_vars
    /\ WF_vars(\E p \in Procs : FetchStep(p) \/ StoreStep(p))

\* ------------------------------------------------------------ PnlService
\* Sizes of Fill rows are counted in units of 1 / SizeUnit; money amounts
\* computed from them (price * size) are brought to the real scale before
\* they are formatted.
inReal(x) == R(x.n, x.d * SizeUnit)

\* 1e-9 as a size and 1e-4 as an amount, in those units
InventoryFloor == R(1, 500)
RealizedFloor == RInt(200)

RECURSIVE Pow10(_)
Pow10(k) == IF k = 0 THEN 1 ELSE 10 * Pow10(k - 1)

\* Number(x.toFixed(digits)): the nearest multiple of 10^-digits, halves away
\* from zero
toFixed(x, digits) ==
    LET scale == Pow10(digits)
        q == (2 * Abs(x.n) * scale + x.d) \div (2 * x.d)
    IN  R(IF x.n < 0 THEN -q ELSE q, scale)

COINGECKO_ID_MAP == ("SOL-USDC" :> "solana")

\* what the price source can quote for an id; 0 stands for an answer that
\* lacks the id
Marks == {0, 110}

\* The transactions served to the wallets whose performance is asked for.
PnlChain == <<
    [signature |-> "q1", blockTime |-> 1000, err |-> FALSE, wallets |-> {"W1"},
     networkFee |-> 2, funding |-> 0,
     events |-> << [side |-> "BUY", price |-> 100, size |-> 40000, instrId |-> 0,
                    tag |-> 11] >>],
    [signature |-> "q2", blockTime |-> 2000, err |-> FALSE, wallets |-> {"W1"},
     networkFee |-> 2, funding |-> 0,
     events |-> << [side |-> "BUY", price |-> 150, size |-> 20000, instrId |-> 0,
                    tag |-> 11] >>],
    [signature |-> "q3", blockTime |-> 90000, err |-> FALSE, wallets |-> {"W1"},
     networkFee |-> 1, funding |-> 0,
     events |-> << [side |-> "SELL", price |-> 120, size |-> 20000, instrId |-> 0,
                    tag |-> 19] >>],
    [signature |-> "q4", blockTime |-> 180000, err |-> FALSE, wallets |-> {"W1"},
     networkFee |-> 1, funding |-> 0,
     events |-> << [side |-> "BUY", price |-> 50, size |-> 1, instrId |-> 0,
                    tag |-> 19] >>],
    [signature |-> "q5", blockTime |-> 181000, err |-> FALSE, wallets |-> {"W2"},
     networkFee |-> 1, funding |-> 0,
     events |-> << [side |-> "BUY", price |-> 30, size |-> 20000, instrId |-> 7,
                    tag |-> 19] >>]
>>

PnlLedger == SubSeq(PnlChain, 1, published)

\* the fetch loop of getMultiplePrices: what it ends with, given the answer
\* to each attempt
RECURSIVE priceFetch(_, _)
priceFetch(responses, attempt) ==
    LET r == responses[attempt]
    IN  IF r = "throw" THEN "throw"
        ELSE IF r = "ok" \/ attempt >= maxAttempts THEN r
        ELSE priceFetch(responses, attempt + 1)

\* getMultiplePrices: the price map it returns, the cache it leaves and the
\* branch it took
getMultiplePrices(cache, now, marketNames, responses, usd) ==
    LET cgNames == {m \in marketNames : m \in DOMAIN COINGECKO_ID_MAP}
        res == priceFetch(responses, 1)
        prices == IF usd = 0 THEN <<>> ELSE [m \in cgNames |-> usd]
    IN  IF cache # NoCache /\ now - cache.timestamp < CACHE_TTL_MS
        THEN [prices |-> cache.prices, cache |-> cache, source |-> "cache"]
        ELSE IF cgNames = {}
        THEN [prices |-> <<>>, cache |-> cache, source |-> "none"]
        ELSE IF res = "ok"
        THEN [prices |-> prices,
              cache |-> [timestamp |-> now, prices |-> prices],
              source |-> "ok"]
        ELSE IF res = "nonok"
        THEN [prices |-> <<>>, cache |-> cache, source |-> "nonok"]
        ELSE [prices |-> cache.prices, cache |-> cache, source |-> "throw"]

\* fill.findMany({where: {position: {walletAddress}}, orderBy timestamp asc})
walletFills(P, F, w) ==
    SortByTimestamp(SelectSeq(F, LAMBDA f : P[f.positionId].walletAddress = w))

\* the keys of groups, in the order they are inserted
RECURSIVE pidsOf(_, _)
pidsOf(rows, seen) ==
    IF rows = <<>> THEN seen
    ELSE pidsOf(Tail(rows),
                IF \E i \in 1..Len(seen) : seen[i] = Head(rows).positionId
                THEN seen ELSE Append(seen, Head(rows).positionId))

\* f.side of a Fill row: the rows are created without a side
fillSide(f) == "undefined"

\* the loop over the fills of one group
RECURSIVE costBasis(_, _, _, _)
costBasis(rows, st, isSpot, side) ==
    IF rows = <<>> THEN st
    ELSE LET f == Head(rows)
             price == RInt(f.price)
             basis == IF st.currentInventory = 0 /\ ~f.isEntry THEN price
                      ELSE st.avgCostBasis
             fees == RAdd(st.totalFees, f.fee)
             adds == IF isSpot THEN fillSide(f) = "BUY" ELSE f.isEntry
             pnlDirection == IF isSpot \/ side = "LONG" THEN 1 ELSE -1
             totalCost == RAdd(RMul(RInt(st.currentInventory), basis),
                               RInt(f.price * f.size))
             grown == st.currentInventory + f.size
             next ==
                IF adds
                THEN [currentInventory |-> grown,
                      avgCostBasis |-> IF isSpot \/ grown > 0
                                       THEN R(totalCost.n, totalCost.d * grown)
                                       ELSE basis,
                      realized |-> st.realized,
                      totalFees |-> fees]
                ELSE [currentInventory |-> st.currentInventory - f.size,
                      avgCostBasis |-> basis,
                      realized |-> RAdd(st.realized,
                                        RMul(RMul(RSub(price, basis), RInt(f.size)),
                                             RInt(pnlDirection))),
                      totalFees |-> fees]
         IN  costBasis(Tail(rows), next, isSpot, side)

\* the body of the loop over groups: the entry for one position and whether
\* it is pushed
performanceOf(P, rows, pid, livePrices) ==
    LET position == P[pid]
        isSpot == rows[1].tradeType = "SPOT"
        st == costBasis(rows, [currentInventory |-> 0,
                               avgCostBasis |-> RInt(rows[1].price),
                               realized |-> Zero, totalFees |-> Zero],
                        isSpot, position.side)
        marketName == position.market
        currentPrice == IF marketName \in DOMAIN livePrices
                           /\ livePrices[marketName] # 0
                        THEN RInt(livePrices[marketName]) ELSE st.avgCostBasis
        pnlFactor == IF ~isSpot /\ position.side = "SHORT" THEN -1 ELSE 1
        absInventory == Abs(st.currentInventory)
        unrealized == RMul(RMul(RSub(currentPrice, st.avgCostBasis),
                                RInt(absInventory)), RInt(pnlFactor))
    IN  [pushed |-> \/ RLess(InventoryFloor, RInt(absInventory))
                    \/ RLess(RealizedFloor, RAbs(st.realized)),
         entry |-> [positionId |-> pid,
                    market |-> marketName,
                    side |-> IF isSpot THEN "LONG" ELSE position.side,
                    entry |-> toFixed(st.avgCostBasis, 4),
                    current |-> toFixed(currentPrice, 4),
                    size |-> toFixed(R(absInventory, SizeUnit), 4),
                    unrealized |-> toFixed(inReal(unrealized), 2),
                    realized |-> toFixed(inReal(st.realized), 2),
                    fees |-> toFixed(st.totalFees, 4)]]

\* getWalletPerformance, given the price map getMultiplePrices returned
getWalletPerformance(P, F, w, livePrices) ==
    LET rows == walletFills(P, F, w)
        pids == pidsOf(rows, <<>>)
        all == [i \in 1..Len(pids) |->
                  performanceOf(P, SelectSeq(rows, LAMBDA f : f.positionId = pids[i]),
                                pids[i], livePrices)]
        pushed == SelectSeq(all, LAMBDA x : x.pushed)
    IN  [i \in 1..Len(pushed) |-> pushed[i].entry]

\* GET /api/dashboard/:wallet.  responses is what the price source answers to
\* each attempt, usd the price it quotes when it answers.
GetWalletPerformance(w, responses, usd) ==
    LET rows == walletFills(positions, fills, w)
        markets == {positions[rows[i].positionId].market : i \in 1..Len(rows)}
        got == getMultiplePrices(priceCache, clock, markets, responses, usd)
    IN  /\ IF rows = <<>>
           THEN /\ perf' = [NoPerf EXCEPT !.wallet = w, !.P = positions]
                /\ priceCache' = priceCache
           ELSE /\ perf' = [wallet |-> w, source |-> got.source,
                            cacheBefore |-> priceCache, P |-> positions,
                            entries |-> getWalletPerformance(positions, fills, w,
                                                             got.prices)]
                /\ priceCache' = got.cache
        /\ UNCHANGED <<published, positions, fills, call, calls, storeFailures,
                       fetchFailures, journalCalls, closures, hist, clock>>

\* time passes (the clock is only ever compared with the age of the cache)
Tick ==
    /\ priceCache # NoCache
    /\ clock < MaxTicks * (CACHE_TTL_MS \div 2)
    /\ clock' = clock + CACHE_TTL_MS \div 2
    /\ UNCHANGED <<published, positions, fills, call, calls, storeFailures,
                   fetchFailures, journalCalls, closures, hist, priceCache, perf>>

\* the log source confirms the next transaction of PnlChain
PublishPnl ==
    /\ published < Len(PnlChain)
    /\ calls < MaxCalls
    /\ published' = published + 1
    /\ UNCHANGED <<positions, fills, call, calls, storeFailures, fetchFailures,
                   journalCalls, closures, hist>>
    /\ UNCHANGED pnlVars

RECURSIVE BumpAll(_, _)
BumpAll(f, ids) ==
    IF ids = {} THEN f
    ELSE LET id == CHOOSE x \in ids : TRUE
         IN  BumpAll(Bump(f, id), ids \ {id})

\* (variant: the call itself is counted)
SumLens_CountsCall(groups) ==
    1 + (IF groups = <<>> THEN 0 ELSE Len(Head(groups).trades))

\* fillsProcessed++ once for every trade of every group
SumLens(groups) ==
    Len(Concat([g \in 1..Len(groups) |-> groups[g].trades]))

\* POST /api/sync run alone and without failure, start to return; hist keeps
\* the record of the last call only
SyncWhole(w) ==
    LET now == ServerEpoch + calls + 1
        since == syncAnchor(positions, fills, w)
        trades == fetchDecodedTrades(PnlLedger, w, DefaultLimit, since, {})
        groups == groupTradesByPosition(trades)
        ref == syncWalletWhole(positions, fills, PnlLedger, w, now)
        closed == {id \in DOMAIN ref.P :
                      /\ ref.P[id].status = "CLOSED"
                      /\ id \in DOMAIN positions => positions[id].status = "OPEN"}
        c == [Idle EXCEPT !.wallet = w, !.upstream = published,
                          !.trades = trades, !.groups = groups,
                          !.fillsProcessed = SumLens(groups),
                          !.since = since, !.now = now,
                          !.sigs = validSigs(PnlLedger, w, DefaultLimit, since),
                          !.startP = positions, !.startF = fills]
    IN  /\ calls < MaxCalls
        /\ calls' = calls + 1
        /\ positions' = ref.P
        /\ fills' = ref.F
        /\ journalCalls' = BumpAll(journalCalls, closed)
        /\ closures' = BumpAll(closures, closed)
        /\ hist' = <<Finished(c, "returned", ref.P, ref.F)>>
        /\ UNCHANGED <<published, call, storeFailures, fetchFailures>>
        /\ UNCHANGED pnlVars

\* (variant: the journalled Position is moved out of the table)
journalUpdate_Archive(P, id, now) ==
    [x \in DOMAIN P \ {id} |-> P[x]]

\* (variant: the update also writes the status the task was started for)
journalUpdate_MarksClosed(P, id, now) ==
    [P EXCEPT ![id].lastNudge = "nudge", ![id].status = "CLOSED"]

\* prisma.position.update({where: {id}, data: updateData}) of the journal:
\* coaching columns only (lastNudge stands for them)
journalUpdate(P, id, now) ==
    [P EXCEPT ![id].lastNudge = "nudge"]

\* journalService.analyzeAndJournal(id) as the Auto-Coach trigger called it
\* comes to its update
AnalyzeAndJournal(id) ==
    /\ Count(journalCalls, id) > 0
    /\ id \in DOMAIN positions
    /\ positions[id].lastNudge = ""
    /\ positions' = journalUpdate(positions, id, ServerEpoch + calls)
    /\ UNCHANGED <<published, fills, call, calls, storeFailures, fetchFailures,
                   journalCalls, closures, hist>>
    /\ UNCHANGED pnlVars

\* what the price source answers to the attempts of one call: OK after two
\* non-OK answers (an OK answer at once ends the same way), never OK, or a
\* thrown error
ResponsePatterns ==
    {<<"nonok", "nonok", "ok">>, <<"nonok", "nonok", "nonok">>,
     <<"nonok", "throw", "ok">>}

Quotes(responses) == IF priceFetch(responses, 1) = "ok" THEN Marks ELSE {0}

NextPnl ==
    \/ PublishPnl
    \/ Tick
    \/ \E w \in Wallets : SyncWhole(w)
    \/ \E id \in DOMAIN positions : AnalyzeAndJournal(id)
    \/ \E w \in Wallets, responses \in ResponsePatterns :
          \E usd \in Quotes(responses) : GetWalletPerformance(w, responses, usd)

SpecPnl == Init /\ [][NextPnl]_vars

\* ------------------------------------------- STEP 3 over any Fill set
\* The aggregation of syncWallet applied to a Position whose Fill rows are
\* any sequence of entries and exits, oldest first: the store starts with one
\* Position of either side and up to MaxFills rows.
AggPrices == {100, 120}
AggSizes == {2, 4}

AggGroup(side) ==
    [key |-> <<"0", side, 0>>, marketId |-> 0, side |-> side,
     trades |-> << [timestamp |-> 1000] >>]

AggRow(id, k, price, size, isEntry) ==
    [signature  |-> "f" \o ToString(k),
     positionId |-> id,
     price      |-> price,
     size       |-> size,
     fee        |-> Zero,
     timestamp  |-> k * 1000,
     isEntry    |-> isEntry,
     tradeType  |-> "PERP",
     funding    |-> 0,
     socLoss    |-> 0]

InitAgg ==
    /\ \E side \in {"BUY", "SELL"}, n \in 1..MaxFills :
          \E price \in [1..n -> AggPrices], size \in [1..n -> AggSizes],
             isEntry \in [1..n -> BOOLEAN] :
              LET id == dbPositionId(AggGroup(side), "W1")
              IN  /\ positions = (id :> positionCreate(AggGroup(side), "W1",
                                                       ServerEpoch))
                  /\ fills = [k \in 1..n |->
                                AggRow(id, k, price[k], size[k], isEntry[k])]
    /\ published = 0
    /\ call = [p \in Procs |-> Idle]
    /\ calls = 0
    /\ storeFailures = 0
    /\ fetchFailures = 0
    /\ journalCalls = <<>>
    /\ closures = <<>>
    /\ hist = <<>>
    /\ priceCache = NoCache
    /\ clock = 0
    /\ perf = NoPerf

\* fill.findMany, the aggregation and position.update for the Position id
Recompute(id) ==
    /\ positions[id].realizedPnl = Null
    /\ positions' = positionUpdate(positions, id,
                        aggregate(findManyFills(fills, id), id[2], ServerEpoch))
    /\ UNCHANGED <<published, fills, call, calls, storeFailures, fetchFailures,
                   journalCalls, closures, hist>>
    /\ UNCHANGED pnlVars

NextAgg == \E id \in DOMAIN positions : Recompute(id)

SpecAgg == InitAgg /\ [][NextAgg]_vars

\* ------------------------------------------------- decoding one transaction
\* mapEventsToTrades over the messages one transaction can decode to: an
\* order message or none, then two fill messages, each with or without its
\* own market id and order id, at a price inside or outside the price ranges.
DecodePrices == {50, 100, 1000}
DecodeOwnIds ==
    {<<>>, ("instrId" :> 8), ("marketId" :> 10),
     ("instrId" :> 8) @@ ("marketId" :> 10)}
DecodeOrderRefs == {<<>>, ("orderId" :> 1), ("orderId" :> 2)}
DecodeOrderMsgs == {<<>>, << [tag |-> 10, orderId |-> 1, instrId |-> 12] >>}

RawFill(price, own, ref) ==
    [side |-> "BUY", price |-> price, size |-> 2, tag |-> 19] @@ own @@ ref

RawTx(events) ==
    [signature |-> "d1", blockTime |-> 1000, err |-> FALSE, wallets |-> {"W1"},
     networkFee |-> 2, funding |-> 0, events |-> events]

\* a call of W1 that has its signature list and is about to download the
\* one transaction on it
InitDecode ==
    /\ \E msgs \in DecodeOrderMsgs, price \in [1..2 -> DecodePrices],
          own \in [1..2 -> DecodeOwnIds], ref \in [1..2 -> DecodeOrderRefs] :
          LET events == msgs \o [k \in 1..2 |-> RawFill(price[k], own[k], ref[k])]
          IN  call = [p \in Procs |->
                        IF p = 1
                        THEN freshRetry([Idle EXCEPT !.pc = "tx", !.wallet = "W1",
                                                     !.now = ServerEpoch + 1,
                                                     !.sigs = <<RawTx(events)>>,
                                                     !.si = 1])
                        ELSE Idle]
    /\ published = 0
    /\ positions = <<>>
    /\ fills = <<>>
    /\ calls = 1
    /\ storeFailures = 0
    /\ fetchFailures = 0
    /\ journalCalls = <<>>
    /\ closures = <<>>
    /\ hist = <<>>
    /\ priceCache = NoCache
    /\ clock = 0
    /\ perf = NoPerf

NextDecode == \E p \in Procs : TxAttempt(p, "ok")

SpecDecode == InitDecode /\ [][NextDecode]_vars

\* ------------------------------------------- syncing with the journal task
\* Calls one after the other as in Spec, with the journaling task the
\* Auto-Coach trigger started coming to its update at any later moment:
\* between the store operations of the call that started it or of a later
\* call.
NextJournal ==
    \/ Next
    \/ \E id \in DOMAIN positions : AnalyzeAndJournal(id)

SpecJournal == Init /\ [][NextJournal]_vars

\* ================================================================== claims
RowsOf(F, id) == SelectSeq(F, LAMBDA f : f.positionId = id)
NetOf(rows) == SumOf(rows, TRUE, FALSE) - SumOf(rows, FALSE, FALSE)
Returned(h) == h.outcome = "returned"
\* the accounting columns of a Position table, without the clock-stamped ones
Accounting(P) ==
    [id \in DOMAIN P |->
        [status |-> P[id].status, totalSize |-> P[id].totalSize,
         avgEntryPrice |-> P[id].avgEntryPrice, avgExitPrice |-> P[id].avgExitPrice,
         totalFees |-> P[id].totalFees, realizedPnl |-> P[id].realizedPnl]]
\* call i+1 repeats call i: same wallet, same ledger, no download given up
Repeats(i) ==
    /\ hist[i].wallet = hist[i + 1].wallet
    /\ hist[i].upstream = hist[i + 1].upstream
    /\ hist[i].failed = {} /\ hist[i + 1].failed = {}

\* C1: a second syncWallet for the same wallet against identical upstream data
\* reports fillsProcessed = 0 and leaves every Position and Fill row as the
\* first call left it.
C1_RepeatIsNoop ==
    \A i \in 1..(Len(hist) - 1) :
        (Repeats(i) /\ Returned(hist[i]) /\ Returned(hist[i + 1]))
        => /\ hist[i + 1].fillsProcessed = 0
           /\ hist[i + 1].endP = hist[i].endP
           /\ hist[i + 1].endF = hist[i].endF

\* C2: in every reachable state no two Fill rows have the same signature.
C2_UniqueSignature ==
    \A i, j \in 1..Len(fills) :
        fills[i].signature = fills[j].signature => i = j

\* a call has finished that was handed only signatures already stored
C2_Redelivered ==
    \E i \in 1..Len(hist) :
        /\ Returned(hist[i])
        /\ hist[i].fillsProcessed >= 1
        /\ \A k \in 1..Len(hist[i].trades) :
              \E f \in 1..Len(hist[i].startF) :
                  hist[i].startF[f].signature = hist[i].trades[k].signature
        /\ Len(fills) >= 2

\* C3 (as claimed): in every reachable state every Position's totalSize is
\* the absolute value of entry sizes minus exit sizes of its Fill rows.
C3_ConservationAlways ==
    \A id \in DOMAIN positions :
        positions[id].totalSize = Abs(NetOf(RowsOf(fills, id)))

\* C3 (amended): the final update of a pass writes totalSize = the absolute
\* value of entry sizes minus exit sizes over the Fill rows the pass read for
\* the Position, or 0 when that value is below epsilon.
C3_UpdateConserves ==
    [][\A p \in Procs :
          (call[p].pc = "update" /\ storeFailures' = storeFailures
              /\ call'[p] # call[p])
          => LET c == call[p]
                 id == dbPositionId(c.groups[c.gi], c.wallet)
                 net == Abs(NetOf(c.allFills))
             IN  positions'[id].totalSize = IF net < Epsilon THEN 0 ELSE net]_vars

\* a final update has zeroed a Position that has a dust Fill row, and another
\* Position carries a size
C3_UpdatedWithDust ==
    /\ \E id \in DOMAIN positions :
          /\ positions[id].status = "CLOSED"
          /\ positions[id].totalSize = 0
          /\ NetOf(RowsOf(fills, id)) > 0
    /\ \E id \in DOMAIN positions : positions[id].totalSize >= Epsilon

TradesFor(h, id) ==
    SelectSeq(h.trades, LAMBDA t : marketKeyOf(t) = id[1]
                                   /\ t.timestamp \div DayMs = id[3])

\* C5: a LONG Position holding size S at average price A, then a sync that
\* delivers one SELL fill of size S at price P for its wallet, market and
\* day, ends CLOSED with totalSize 0, realizedPnl (P - A) * S and
\* avgExitPrice P.
C5_ExitClosesLong ==
    \A i \in 1..Len(hist) :
        LET h == hist[i] IN
        Returned(h) =>
            \A id \in DOMAIN h.startP :
                LET pos == h.startP[id]
                    ts == TradesFor(h, id)
                IN  (/\ pos.walletAddress = h.wallet
                     /\ pos.side = "LONG" /\ pos.status = "OPEN"
                     /\ pos.totalSize > 0
                     /\ Len(ts) = 1
                     /\ ts[1].side = "SELL"
                     /\ ts[1].size = pos.totalSize)
                    => /\ h.endP[id].status = "CLOSED"
                       /\ h.endP[id].totalSize = 0
                       /\ h.endP[id].realizedPnl =
                              RMul(RSub(RInt(ts[1].price), pos.avgEntryPrice),
                                   RInt(pos.totalSize))
                       /\ h.endP[id].avgExitPrice = RInt(ts[1].price)

AllEntries(rows) == rows # <<>> /\ \A k \in 1..Len(rows) : rows[k].isEntry

C7_NotifyOncePerClosure ==
    \A id \in DOMAIN positions :
        Count(journalCalls, id) = Count(closures, id)

\* a Position that was notified once has since been touched by a completed
\* call that found it CLOSED
C7_ClosedTouchedAgain ==
    \E i \in 1..Len(hist) :
        /\ Returned(hist[i])
        /\ \E id \in hist[i].touched :
              /\ id \in DOMAIN hist[i].startP
              /\ hist[i].startP[id].status = "CLOSED"
              /\ Count(journalCalls, id) = 1

\* C8: once two interleaved sync calls for one wallet have both returned,
\* each Position's derived fields equal the recomputation over its final
\* Fill set.
C8_Converges ==
    (/\ NoneRunning
     /\ Len(hist) = 2
     /\ Returned(hist[1]) /\ Returned(hist[2])
     /\ hist[1].wallet = hist[2].wallet)
    => \A id \in hist[1].touched \cup hist[2].touched :
          LET agg == aggregate(findManyFills(fills, id), id[2], 0)
          IN  /\ positions[id].totalSize = agg.totalSize
              /\ positions[id].avgEntryPrice = agg.avgEntryPrice
              /\ positions[id].totalFees = agg.totalFees
              /\ positions[id].realizedPnl = agg.realizedPnl
              /\ positions[id].status = IF agg.isClosed THEN "CLOSED" ELSE "OPEN"

\* C9: when two sync calls for one wallet interleave, then once they have
\* returned analyzeAndJournal has been invoked exactly once for each change
\* OPEN -> CLOSED.
C9_NotifyOnceInterleaved ==
    (NoneRunning /\ \A i \in 1..Len(hist) : Returned(hist[i])) =>
        \A id \in DOMAIN closures :
            \A n \in 1..Cardinality(Procs) :
                closures[id] = n => Count(journalCalls, id) = n

\* C10: after a call that aborted on a store failure, a repeat of the call
\* with the same upstream data and no failure leaves the accounting state and
\* the Fill rows of a call that never failed.
C10_RetryRepairs ==
    \A i \in 1..(Len(hist) - 1) :
        (Repeats(i) /\ hist[i].outcome = "raised" /\ Returned(hist[i + 1]))
        => LET ref == syncWalletWhole(hist[i].startP, hist[i].startF,
                                      SubSeq(Chain, 1, hist[i].upstream),
                                      hist[i].wallet, hist[i + 1].now)
           IN  /\ Accounting(hist[i + 1].endP) = Accounting(ref.P)
               /\ hist[i + 1].endF = ref.F

\* C11: a transaction that one sync call skipped is stored by a later sync
\* call for the wallet in which no download fails, even when a fill with a
\* later or equal timestamp is already stored.
C11_SkippedIngestedLater ==
    \A i, j \in 1..Len(hist) :
        (/\ i < j
         /\ hist[i].wallet = hist[j].wallet
         /\ Returned(hist[j])
         /\ hist[j].failed = {})
        => \A sig \in hist[i].failed :
              \E f \in 1..Len(hist[j].endF) : hist[j].endF[f].signature = sig

\* the derived fields a pass writes, as a record
Derived(pos) ==
    [avgEntryPrice |-> pos.avgEntryPrice, totalSize |-> pos.totalSize,
     totalFees |-> pos.totalFees, realizedPnl |-> pos.realizedPnl,
     status |-> pos.status]
DerivedFrom(rows, side) ==
    LET agg == aggregate(SortByTimestamp(rows), side, 0)
    IN  [avgEntryPrice |-> agg.avgEntryPrice, totalSize |-> agg.totalSize,
         totalFees |-> agg.totalFees, realizedPnl |-> agg.realizedPnl,
         status |-> IF agg.isClosed THEN "CLOSED" ELSE "OPEN"]
\* the Fill rows of Position id that call h added
AddedRows(h, id) ==
    SelectSeq(RowsOf(h.endF, id),
              LAMBDA f : \A k \in 1..Len(h.startF) :
                            h.startF[k].signature # f.signature)

\* C12: when a sync call adds fills to a Position that already has Fill rows
\* from earlier calls, the avgEntryPrice, totalSize, totalFees, realizedPnl
\* and status it writes are computed over all Fill rows of the Position.
C12_RecomputedOverAll ==
    \A i \in 1..Len(hist) :
        Returned(hist[i]) =>
            \A id \in hist[i].touched :
                (/\ RowsOf(hist[i].startF, id) # <<>>
                 /\ AddedRows(hist[i], id) # <<>>)
                => Derived(hist[i].endP[id])
                     = DerivedFrom(RowsOf(hist[i].endF, id), id[2])

\* a call added a fill to a Position that had one, and the fields it wrote
\* differ from what the added fills alone give
C12_AddedToExisting ==
    \E i \in 1..Len(hist) :
        /\ Returned(hist[i])
        /\ \E id \in hist[i].touched :
              /\ RowsOf(hist[i].startF, id) # <<>>
              /\ AddedRows(hist[i], id) # <<>>
              /\ Derived(hist[i].endP[id])
                   # DerivedFrom(AddedRows(hist[i], id), id[2])

\* C13: in every reachable state, also after a call that aborted and between
\* the store writes of a call in progress, every Fill row's positionId names
\* an existing Position row (so a Position is written before its Fills).
C13_FillHasPosition ==
    \A i \in 1..Len(fills) : fills[i].positionId \in DOMAIN positions

\* a call aborted after it had written a Fill row, and a Fill row has been
\* written for a second Position
C13_FillAfterAbort ==
    /\ \E i \in 1..Len(hist) :
          /\ hist[i].outcome = "raised"
          /\ Len(hist[i].endF) > Len(hist[i].startF)
    /\ \E i, j \in 1..Len(fills) : fills[i].positionId # fills[j].positionId

\* C14: a rejecting analyzeAndJournal never makes syncWallet raise, never
\* changes the summary it returns and never keeps the remaining groups of
\* the batch from being persisted: the call ends as one with no rejection.
C14_NotifyFailureHarmless ==
    \A i \in 1..Len(hist) :
        LET h == hist[i]
            groups == groupTradesByPosition(h.trades)
            ref == syncGroups([P |-> h.startP, F |-> h.startF], groups,
                              h.wallet, h.now)
        IN  /\ h.outcome # "raisedNotify"
            /\ (h.rejections > 0 /\ Returned(h))
               => /\ h.positionsUpdated = Len(groups)
                  /\ h.fillsProcessed = Len(h.trades)
                  /\ h.endP = ref.P
                  /\ h.endF = ref.F

\* a call has returned in which analyzeAndJournal rejected for a group that
\* was not the last, and the last group's Position was persisted OPEN
C14_RejectedMidBatch ==
    \E i \in 1..Len(hist) :
        LET h == hist[i]
            groups == groupTradesByPosition(h.trades)
        IN  /\ Returned(h)
            /\ h.rejections > 0
            /\ Len(groups) >= 2
            /\ h.endP[dbPositionId(groups[Len(groups)], h.wallet)].status = "OPEN"

TradesOf(h, sig) == SelectSeq(h.trades, LAMBDA t : t.signature = sig)

\* C15: in fetchDecodedTrades a transaction whose fetch or decoding failed
\* contributes no trade event, every other transaction of the batch
\* contributes all of its events, and the call does not raise for it.
C15_OthersStillReturned ==
    \A i \in 1..Len(hist) :
        LET h == hist[i]
        IN  /\ h.outcome = "raisedFetch" => h.failed = {}
            /\ h.outcome # "raisedFetch" =>
                  \A k \in 1..Len(h.sigs) :
                      Len(TradesOf(h, h.sigs[k].signature))
                        = IF h.sigs[k].signature \in h.failed THEN 0
                          ELSE Len(h.sigs[k].events)

\* a call has returned whose batch had a failing transaction followed by
\* other transactions
C15_FailedThenOthers ==
    \E i \in 1..Len(hist) :
        LET h == hist[i]
        IN  /\ Returned(h)
            /\ h.trades # <<>>
            /\ \E k \in 1..(Len(h.sigs) - 1) : h.sigs[k].signature \in h.failed

\* C16: a transaction fetch that fails is retried with the wait doubling on
\* each retry, 3 retries (4 attempts), before the transaction is skipped.
C16_FailedFetchRetried ==
    \A p \in Procs :
        \A g \in call[p].gaveUp :
            g.waits = <<RetryDelay, 2 * RetryDelay, 4 * RetryDelay>>

C18_UnrealizedSign ==
    \A k \in 1..Len(perf.entries) :
        LET e == perf.entries[k]
            pos == perf.P[e.positionId]
        IN  e.size.n # 0 =>
               IF pos.side = "LONG"
               THEN (e.unrealized.n > 0) <=> RLess(pos.avgEntryPrice, e.current)
               ELSE (e.unrealized.n > 0) <=> RLess(e.current, pos.avgEntryPrice)

\* C19: when the price source fails (non-OK answer after the retries, or a
\* thrown error) every entry is priced at the last cached price of its market
\* when there is one, and otherwise at its own cost basis with unrealized 0.
C19_FallsBackToCache ==
    perf.source \in {"nonok", "throw"} =>
        \A k \in 1..Len(perf.entries) :
            LET e == perf.entries[k]
                cached == perf.cacheBefore.prices
            IN  IF e.market \in DOMAIN cached
                THEN e.current = RInt(cached[e.market])
                ELSE e.current = e.entry /\ e.unrealized = Zero

\* C20: the positions getWalletPerformance reports for a wallet are exactly
\* the wallet's Positions whose stored status is OPEN.
C20_ExactlyOpen ==
    perf.wallet # "" =>
        {perf.entries[k].positionId : k \in 1..Len(perf.entries)}
          = {id \in DOMAIN perf.P : /\ perf.P[id].walletAddress = perf.wallet
                                    /\ perf.P[id].status = "OPEN"}

\* C21: in every reachable state, also between the store writes of
\* overlapping calls, a CLOSED Position has totalSize exactly 0 and a Position
\* with totalSize above 0 is OPEN.
C21_ClosedHasNoSize ==
    \A id \in DOMAIN positions :
        /\ positions[id].status = "CLOSED" => positions[id].totalSize = 0
        /\ positions[id].totalSize > 0 => positions[id].status = "OPEN"

\* while a call is in progress, a Position that was CLOSED over a dust Fill
\* row has been reopened with a size by a further fill
C21_ReopenedWithSize ==
    /\ ~NoneRunning
    /\ \E id \in DOMAIN positions :
          /\ Count(closures, id) >= 1
          /\ positions[id].status = "OPEN"
          /\ positions[id].totalSize >= Epsilon

\* the block times (as ms) of the transactions of Chain that have a fill
\* event of Position id
BlockTimesOf(id) ==
    {Chain[k].blockTime * 1000 :
        k \in {j \in 1..Len(Chain) :
                  /\ id[4] \in Chain[j].wallets
                  /\ \E t \in {mapEventsToTrades(Chain[j])[e] :
                                  e \in 1..Len(Chain[j].events)} :
                        groupKey(t) = <<id[1], id[2], id[3]>>}}

\* C22: every timestamp a completed sync call has stored for a Position it
\* touched (createdAt, updatedAt, closedAt, and the timestamp of each of its
\* Fill rows) is the block time of one of the Position's transactions, never
\* the server clock.
C22_TimestampsFromChain ==
    \A i \in 1..Len(hist) :
        Returned(hist[i]) =>
            \A id \in hist[i].touched :
                LET pos == hist[i].endP[id]
                    rows == RowsOf(hist[i].endF, id)
                IN  /\ pos.createdAt \in BlockTimesOf(id)
                    /\ pos.updatedAt \in BlockTimesOf(id)
                    /\ pos.closedAt # NullTime => pos.closedAt \in BlockTimesOf(id)
                    /\ \A k \in 1..Len(rows) :
                          rows[k].timestamp \in BlockTimesOf(id)

TimestampsOf(rows) == {rows[k].timestamp : k \in 1..Len(rows)}
\* the smallest (largest) timestamp among rows; NullTime when there is no row
Earliest(rows) ==
    IF rows = <<>> THEN NullTime
    ELSE CHOOSE t \in TimestampsOf(rows) : \A u \in TimestampsOf(rows) : t <= u
Latest(rows) ==
    IF rows = <<>> THEN NullTime
    ELSE CHOOSE t \in TimestampsOf(rows) : \A u \in TimestampsOf(rows) : t >= u

\* C23: after every completed sync call each Position that has Fill rows, or
\* that the call touched, has createdAt = the smallest timestamp among its
\* Fill rows and, when it is CLOSED, closedAt = the largest timestamp among
\* its Fill rows.
C23_CreatedFirstClosedLast ==
    \A i \in 1..Len(hist) :
        Returned(hist[i]) =>
            \A id \in DOMAIN hist[i].endP :
                LET pos == hist[i].endP[id]
                    rows == RowsOf(hist[i].endF, id)
                IN  (rows # <<>> \/ id \in hist[i].touched) =>
                        /\ pos.createdAt = Earliest(rows)
                        /\ pos.status = "CLOSED" => pos.closedAt = Latest(rows)

\* C24: no step of sync, of getWalletPerformance or of the journal removes a
\* Position or a Fill row: every Position id and every Fill signature of the
\* store is still there after the step, a CLOSED Position included.
C24_NeverDeleted ==
    [][/\ \A id \in DOMAIN positions : id \in DOMAIN positions'
       /\ \A i \in 1..Len(fills) :
             \E j \in 1..Len(fills') : fills'[j].signature = fills[i].signature]_vars

\* a Position was closed, journalled, reported on after that and then
\* survived a further sync that added Fill rows
C24_ClosedKept ==
    \E id \in DOMAIN positions :
        /\ positions[id].status = "CLOSED"
        /\ positions[id].lastNudge # ""
        /\ id \in DOMAIN perf.P
        /\ perf.P[id].lastNudge # ""
        /\ Len(fills) > Cardinality({f \in 1..Len(fills) :
                                       fills[f].positionId \in DOMAIN perf.P})

\* the funding decoded from the transaction with signature sig
FundingOfTx(sig) ==
    LET k == CHOOSE j \in 1..Len(Chain) : Chain[j].signature = sig
    IN  Chain[k].funding
RECURSIVE SumFundingOfTx(_)
SumFundingOfTx(rows) ==
    IF rows = <<>> THEN 0
    ELSE FundingOfTx(Head(rows).signature) + SumFundingOfTx(Tail(rows))
\* the price PnL of a Fill set: the aggregation with no funding and no loss
PricePnlOf(rows, side) ==
    aggregate([k \in 1..Len(rows) |->
                  [rows[k] EXCEPT !.funding = 0, !.socLoss = 0]], side, 0).realizedPnl

\* C25: the realizedPnl a completed sync call stores for a Position it
\* touched is its price PnL plus the funding decoded from the transactions of
\* its Fill rows (minus socialized losses, of which the decoder yields none).
C25_FundingInRealizedPnl ==
    \A i \in 1..Len(hist) :
        Returned(hist[i]) =>
            \A id \in hist[i].touched :
                LET rows == SortByTimestamp(RowsOf(hist[i].endF, id))
                IN  hist[i].endP[id].realizedPnl
                      = RAdd(PricePnlOf(rows, id[2]), RInt(SumFundingOfTx(rows)))

\* C26: a fill.upsert for a trade whose signature already has a Fill row adds
\* no row and changes nothing but the fee of that row: positionId, price,
\* size, isEntry and timestamp stay as they were created, and every other
\* row stays as it is.
C26_ReprocessKeepsRow ==
    [][\A p \in Procs :
          (/\ call[p].pc = "upsertFill"
           /\ call'[p].fillsProcessed = call[p].fillsProcessed + 1)
          => LET c == call[p]
                 t == c.groups[c.gi].trades[c.ti]
             IN  (\E i \in 1..Len(fills) : fills[i].signature = t.signature)
                 => /\ Len(fills') = Len(fills)
                    /\ \A i \in 1..Len(fills) :
                          IF fills[i].signature = t.signature
                          THEN fills'[i] = [fills[i] EXCEPT !.fee = t.fee]
                          ELSE fills'[i] = fills[i]]_vars

\* a completed call re-processed a signature with a trade event of another
\* Position and another price, and the stored row is still the first one
C26_ReprocessedOtherEvent ==
    \E i \in 1..Len(hist) :
        LET h == hist[i]
            groups == groupTradesByPosition(h.trades)
        IN  /\ Returned(h)
            /\ \E g \in 1..Len(groups) :
                  \E k \in 1..Len(groups[g].trades) :
                      \E f \in 1..Len(h.endF) :
                          /\ h.endF[f].signature = groups[g].trades[k].signature
                          /\ h.endF[f].positionId # dbPositionId(groups[g], h.wallet)
                          /\ h.endF[f].price # groups[g].trades[k].price

\* C27: a syncWallet whose fetch step yields no trade event returns success
\* with positionsUpdated = 0 and fillsProcessed = 0, sends no notification
\* and leaves every Position and Fill row as it is; getWalletPerformance for a
\* wallet with no fills returns the empty list.
C27_EmptyIsNotAnError ==
    [][/\ (calls' = calls + 1 /\ hist'[1].trades = <<>>)
          => /\ Returned(hist'[1])
             /\ hist'[1].positionsUpdated = 0
             /\ hist'[1].fillsProcessed = 0
             /\ journalCalls' = journalCalls
             /\ positions' = positions
             /\ fills' = fills
       /\ (perf' # perf /\ walletFills(positions, fills, perf'.wallet) = <<>>)
          => perf'.entries = <<>>]_vars

\* with rows in the store, the last sync got an empty batch and the last
\* getWalletPerformance was for a wallet that has no fills
C27_EmptyOverFullStore ==
    /\ hist # <<>>
    /\ hist[1].trades = <<>>
    /\ hist[1].startF # <<>>
    /\ hist[1].sigs = <<>>
    /\ perf.wallet # ""
    /\ walletFills(positions, fills, perf.wallet) = <<>>
    /\ perf.P # <<>>

\* the Position ids the trade t of call h is grouped under
GroupIdsOf(h, t) ==
    LET groups == groupTradesByPosition(h.trades)
    IN  {dbPositionId(groups[g], h.wallet) :
            g \in {x \in 1..Len(groups) :
                      \E k \in 1..Len(groups[x].trades) : groups[x].trades[k] = t}}
TradeSet(h) == {h.trades[k] : k \in 1..Len(h.trades)}
SameKey(t, u) ==
    /\ (IF t.marketId # -1 THEN ToString(t.marketId) ELSE t.symbol)
         = (IF u.marketId # -1 THEN ToString(u.marketId) ELSE u.symbol)
    /\ t.side = u.side
    /\ t.timestamp \div 86400000 = u.timestamp \div 86400000

\* C28: two trade events of one wallet, of the same or of different sync
\* calls, are grouped under the same Position id exactly when they have the
\* same market key (marketId, or symbol when marketId is -1), the same raw
\* side and the same UTC day; the Position is LONG for BUY and SHORT for SELL.
C28_GroupingKey ==
    \A i, j \in 1..Len(hist) :
        hist[i].wallet = hist[j].wallet =>
            \A t \in TradeSet(hist[i]), u \in TradeSet(hist[j]) :
                /\ Cardinality(GroupIdsOf(hist[i], t)) = 1
                /\ (GroupIdsOf(hist[i], t) = GroupIdsOf(hist[j], u)) <=> SameKey(t, u)
                /\ Returned(hist[i]) =>
                      \A id \in GroupIdsOf(hist[i], t) :
                          hist[i].endP[id].side
                            = IF t.side = "BUY" THEN "LONG" ELSE "SHORT"

\* two completed calls of one wallet between them grouped trades of the
\* unnamed market of two days, and trades of one market of both sides
C28_AllKeyParts ==
    \E i, j \in 1..Len(hist) :
        /\ i < j
        /\ Returned(hist[i]) /\ Returned(hist[j])
        /\ hist[i].wallet = hist[j].wallet
        /\ \E t \in TradeSet(hist[i]), u \in TradeSet(hist[j]) :
              /\ t.marketId = -1 /\ u.marketId = -1
              /\ t.timestamp \div DayMs # u.timestamp \div DayMs
        /\ \E t, u \in TradeSet(hist[i]) :
              /\ t.marketId = u.marketId
              /\ t.side # u.side

\* the running weighted-average algorithm over rows, oldest first: st is
\* [netSize, avgCostBasis, realized]
RECURSIVE RunningPnl(_, _, _)
RunningPnl(rows, st, direction) ==
    IF rows = <<>> THEN st
    ELSE LET f == Head(rows)
             next ==
                IF f.isEntry
                THEN [netSize |-> st.netSize + f.size,
                      avgCostBasis |->
                          IF st.netSize = 0 THEN RInt(f.price)
                          ELSE LET cost == RAdd(RMul(RInt(st.netSize), st.avgCostBasis),
                                                RInt(f.price * f.size))
                               IN  R(cost.n, cost.d * (st.netSize + f.size)),
                      realized |-> st.realized]
                ELSE [netSize |-> st.netSize - f.size,
                      avgCostBasis |-> st.avgCostBasis,
                      realized |-> RAdd(st.realized,
                                        RMul(RMul(RSub(RInt(f.price), st.avgCostBasis),
                                                  RInt(f.size)), RInt(direction)))]
         IN  RunningPnl(Tail(rows), next, direction)

\* no exit takes more than the entries before it brought in
RECURSIVE NeverOversold(_, _)
NeverOversold(rows, net) ==
    \/ rows = <<>>
    \/ LET n == IF Head(rows).isEntry THEN net + Head(rows).size
                 ELSE net - Head(rows).size
        IN  n >= 0 /\ NeverOversold(Tail(rows), n)

C30_ReplayAgreesWithSync ==
    \A i \in 1..Len(perf.entries) :
        LET e == perf.entries[i]
            p == perf.P[e.positionId]
            rows == findManyFills(fills, e.positionId)
        IN  (/\ p.realizedPnl # Null
             /\ \A k \in 1..Len(rows) : rows[k].funding = 0)
            => /\ e.size = toFixed(R(p.totalSize, SizeUnit), 4)
               /\ e.realized = toFixed(inReal(p.realizedPnl), 2)

\* the fill messages of the one transaction a call has decoded, with the
\* trades made of them
DecodedBy(c) ==
    IF c.pc = "tx" /\ Len(c.sigs) = 1 /\ c.si = 2
    THEN LET ev == SelectSeq(c.sigs[1].events, isFill)
         IN  {<<ev[i], c.trades[i], c.sigs[1].events>> : i \in 1..Len(ev)}
    ELSE {}
\* the market ids the messages of a transaction give for the order of e
CorrelatedIds(events, e) ==
    {possibleId(events[i]) : i \in {j \in 1..Len(events) :
        /\ hasId(events[j])
        /\ "orderId" \in DOMAIN events[j]
        /\ "orderId" \in DOMAIN e
        /\ events[j].orderId = e.orderId}}

C32_CountIsRowsAdded ==
    \A i \in 1..Len(hist) :
        Returned(hist[i])
            => hist[i].fillsProcessed = Len(hist[i].endF) - Len(hist[i].startF)

\* C33: every Fill row in the store has isEntry = true.
C33_NoExitStored ==
    \A i \in 1..Len(fills) : fills[i].isEntry

\* a sell of a market is stored as the entry of a SHORT Position while the
\* same wallet holds a LONG Position of that market and day with size
C33_SellStoredAsEntry ==
    \E i \in 1..Len(fills) :
        \E id \in DOMAIN positions :
            LET short == positions[fills[i].positionId]
            IN  /\ short.side = "SHORT"
                /\ fills[i].isEntry
                /\ positions[id].side = "LONG"
                /\ positions[id].totalSize > 0
                /\ positions[id].walletAddress = short.walletAddress
                /\ positions[id].market = short.market
                /\ id[3] = fills[i].positionId[3]

\* the number of elements of a sequence that have the signature sig
CountSig(rows, sig) ==
    Cardinality({k \in 1..Len(rows) : rows[k].signature = sig})

\* C34: after a call that returned, the store holds as many Fill rows with
\* the signature of a transaction the call decoded as the transaction has
\* decoded fill events.
C34_RowPerEvent ==
    \A i \in 1..Len(hist) :
        Returned(hist[i])
            => \A k \in 1..Len(hist[i].trades) :
                  LET sig == hist[i].trades[k].signature
                  IN  CountSig(hist[i].endF, sig) = CountSig(hist[i].trades, sig)

\* C35: a Position created by a call that returned has at least one Fill
\* row, from the return of that call on.
C35_CreatedHasFill ==
    \A i \in 1..Len(hist) :
        Returned(hist[i])
            => \A id \in DOMAIN hist[i].endP \ DOMAIN hist[i].startP :
                  RowsOf(fills, id) # <<>>

\* the rows of wallet w in a store: its Positions and the Fill rows they own
RowsOfWallet(P, F, w) ==
    [P |-> [id \in {x \in DOMAIN P : P[x].walletAddress = w} |-> P[id]],
     F |-> SelectSeq(F, LAMBDA f : P[f.positionId].walletAddress = w)]

\* C36: the rows a call that returned without a failed download leaves for
\* its wallet are the rows the same call leaves when it starts from the
\* wallet's own earlier rows only, the rows of every other wallet absent.
C36_OtherWalletsDoNotMatter ==
    \A i \in 1..Len(hist) :
        LET h == hist[i]
            own == RowsOfWallet(h.startP, h.startF, h.wallet)
            alone == syncWalletWhole(own.P, own.F, SubSeq(Chain, 1, h.upstream),
                                     h.wallet, h.now)
        IN  (Returned(h) /\ h.failed = {})
            => RowsOfWallet(h.endP, h.endF, h.wallet)
                 = RowsOfWallet(alone.P, alone.F, h.wallet)

\* C37: a Position with status OPEN has neither closedAt nor avgExitPrice.
C37_OpenHasNoClosure ==
    \A id \in DOMAIN positions :
        positions[id].status = "OPEN"
            => /\ positions[id].closedAt = NullTime
               /\ positions[id].avgExitPrice = Null

\* C38: in every step every Position stays in the table with its
\* walletAddress, market and side; its journal columns change only in a step
\* of analyzeAndJournal for it; and such a step leaves its status, totalSize,
\* avgEntryPrice, avgExitPrice, totalFees, realizedPnl and closedAt as they
\* were.
C38_DisjointWrites ==
    [][\A id \in DOMAIN positions :
          /\ id \in DOMAIN positions'
          /\ positions'[id].walletAddress = positions[id].walletAddress
          /\ positions'[id].market = positions[id].market
          /\ positions'[id].side = positions[id].side
          /\ positions'[id].lastNudge # positions[id].lastNudge
                => AnalyzeAndJournal(id)
          /\ AnalyzeAndJournal(id)
                => /\ Accounting(positions')[id] = Accounting(positions)[id]
                   /\ positions'[id].closedAt = positions[id].closedAt]_vars

\* the journaling task has written a Position after a call began and before
\* that call's final update of the same Position
C38_JournalAmidSync ==
    \E p \in Procs :
        LET c == call[p]
            id == dbPositionId(c.groups[c.gi], c.wallet)
        IN  /\ c.pc = "update"
            /\ id \in DOMAIN c.startP
            /\ c.startP[id].lastNudge = ""
            /\ positions[id].lastNudge = "nudge"

====
